---- MODULE Spec2Model ----
(***************************************************************************)
(* Model of the Mercor job bot (src/src/bot.py): the discovery / dedup /   *)
(* classification pipeline of main(), the history ledger                   *)
(* (load_history, save_history) and the classifier's reply handling        *)
(* (analyze_job).  The page renderer, the classification service and the   *)
(* file system are environments whose outcomes are chosen with \E.         *)
(***************************************************************************)
EXTENDS Integers, Sequences, FiniteSets, TLC

(* ------------------------------ bounds -------------------------------- *)
NumIds == 6          \* posting ids are 1..NumIds
MaxVaried == 2       \* postings 1..MaxVaried meet every outcome of the environment
MaxTitleParts == 3   \* a title is made of at most so many pieces
MaxTextParts == 3    \* a description is made of at most so many pieces

(* ------------------------- program constants -------------------------- *)
max_pages == 5       \* bot.py:264
HardLimit == 3000     \* line 99: the length above which a description is cut
ContextChars == 500   \* line 92: the characters kept before the section found
CheckpointEvery == 5 \* bot.py:363

Ids == 1..NumIds

VARIABLES
    file,           \* data/job_history.json: [kind, ids]
    status,         \* "running", "complete" (line 381), "returned" (line 254)
    pc,             \* position of main()
    client,         \* genai_client is set (lines 215-224)
    url,            \* page.url of the renderer session
    history,        \* main: history (line 226)
    jobs,           \* main: jobs, as the sequence of their ids (line 227, 296)
    current_page,   \* main: current_page (line 265)
    new_jobs,       \* main: new_jobs (line 316)
    idx,            \* position of the loop of line 322 in new_jobs (i + 1)
    matches,        \* main: matches (line 319)
    processed_ids,  \* main: processed_ids (line 320)
    \* ---- observation of the run (history variables) ----
    extracted,      \* the listing pages whose links were extracted, in order
    listed,         \* ids the listing pages of this run gave to jobs
    repeated,       \* new ids that more than one link of this run gave to jobs
    nextLog,        \* the outcome of each check of the next-page control
    authSeen,       \* the renderer landed on an authentication page in this run
    authInitial,    \* ... on the initial navigation
    fetchLog,       \* ids whose detail page was requested (page.goto, line 326)
    classLog,       \* ids handed to analyze_job (line 357)
    fetchFailed,    \* ids whose detail fetch raised in this run
    lastReply,      \* the service's reply to the last analyze_job call
    lastVerdict,    \* what that call returned
    emailCalls,     \* the arguments of the calls of send_email in this run
    saveCalls,      \* number of calls of save_history in this run
    lastSave,       \* "none", "open", "ok", "failed": the last save_history call
    flushedLen,     \* Len(processed_ids) at the last completed save_history
    saveFailed,     \* a save_history call of this run raised
    escaped,        \* an exception reached the handler of line 378
    durable,        \* ids a valid pre-run file or a completed flush has persisted
    \* ---- the pure functions, applied on their own ----
    fnpc,           \* "idle", or how far the function under study has been applied
    title,          \* is_excluded_title: its argument
    excluded,       \* is_excluded_title: its result
    text,           \* optimize_description: its argument
    optimized,      \* optimize_description(text)
    reoptimized     \* optimize_description(optimized)

obs == <<extracted, listed, repeated, nextLog, authSeen, authInitial, fetchLog, classLog, fetchFailed,
         lastReply, lastVerdict, emailCalls, saveCalls, lastSave, flushedLen,
         saveFailed, escaped, durable>>

pureVars == <<fnpc, title, excluded, text, optimized, reoptimized>>

vars == <<file, status, pc, client, url, history, jobs, current_page, new_jobs,
          idx, matches, processed_ids, obs, pureVars>>

(* ------------------------------ helpers ------------------------------- *)
Range(s) == {s[k] : k \in 1..Len(s)}

RECURSIVE UpTo(_)
UpTo(n) == IF n <= 0 THEN <<>> ELSE Append(UpTo(n - 1), n)

NoReply == [kind |-> "none"]

(* ------------------------- the history ledger ------------------------- *)
MissingFile == [kind |-> "missing", ids |-> <<>>]
\* empty, cut short or otherwise not a JSON document (or not readable)
BadFile == [kind |-> "bad", ids |-> <<>>]
OkFile(s) == [kind |-> "ok", ids |-> s]

\* load_history: a missing file, and one that json.load or open rejects, give []
load_history(f) == IF f.kind = "ok" THEN f.ids ELSE <<>>

\* what save_history is called with, at lines 364 and 370
SaveArg(h, p) == h \o p

\* the checkpoint condition of line 363
CheckpointDue_Never(n) == FALSE
CheckpointDue(n) == n % CheckpointEvery = 0

(* ------------------------------ discovery ----------------------------- *)
\* line 251: "/login" in page.url or "auth-wall" in page.url
Urls == {"explore", "login", "auth-wall"}
\* where a click of the next-page control may land
UrlsAfterClick == {"explore", "login"}
IsAuthUrl_LoginOnly(u) == u = "login"
IsAuthUrl(u) == u \in {"login", "auth-wall"}

\* line 267
LoopCond_OffByOne(p) == p <= max_pages + 1
LoopCond(p) == p <= max_pages

\* A link of a listing page: the posting id its href encodes (lines 276-280)
\* and whether is_excluded_title rejects its title (line 293).
Link(i, x) == [id |-> i, excl |-> x]

RECURSIVE LinksOf(_)
LinksOf(s) == IF s = <<>> THEN <<>>
              ELSE <<Link(Head(s), FALSE)>> \o LinksOf(Tail(s))

\* The listing pages the renderer may show.
ListingPages ==
    { <<>>,
      LinksOf(UpTo(NumIds)),
      <<Link(1, FALSE), Link(1, FALSE), Link(2, TRUE), Link(NumIds, FALSE)>> }

\* an authentication page has no listing link
PagesAt(u) == IF IsAuthUrl(u) THEN {<<>>} ELSE ListingPages

\* lines 272-297: the ids appended to jobs for one page
RECURSIVE FoundOn(_)
FoundOn(links) ==
    IF links = <<>> THEN <<>>
    ELSE IF Head(links).excl THEN FoundOn(Tail(links))
         ELSE <<Head(links).id>> \o FoundOn(Tail(links))

\* line 315: {j.id: j for j in jobs}.values() keeps the order of first insertion
unique_jobs_KeepAll(js) == js
RECURSIVE unique_jobs(_)
unique_jobs(js) ==
    IF js = <<>> THEN <<>>
    ELSE LET rest == unique_jobs(SubSeq(js, 1, Len(js) - 1))
             last == js[Len(js)]
         IN IF last \in Range(rest) THEN rest ELSE Append(rest, last)

\* how many entries of jobs carry the id i
Occurrences(js, i) == Cardinality({k \in 1..Len(js) : js[k] = i})

\* line 316
NewJobs_NoFilter(js, h) == unique_jobs(js)
NewJobs(js, h) == SelectSeq(unique_jobs(js), LAMBDA j : j \notin Range(h))

(* ----------------------------- classifier ----------------------------- *)
\* The JSON documents a reply may hold, by what json.loads makes of them.
NotJson == [json |-> "invalid"]
JsonArray == [json |-> "array"]
JsonObject(fields, m) == [json |-> "object", fields |-> fields, match |-> m]
\* values of the "match" field: JSON true, false, null and a non-empty string
MatchValues == {"true", "false", "null", "string"}
Bodies == {NotJson, JsonArray, JsonObject({"reason"}, "null")}
          \cup {JsonObject({"match", "reason"}, m) : m \in MatchValues}

\* The service raises, answers without text, or answers with text: a body, maybe
\* after a ```json or a bare ``` fence and maybe before a closing ```.
ServiceRaises == [kind |-> "raise"]
NoText == [kind |-> "notext"]
Text(pre, post, b) == [kind |-> "text", pre |-> pre, post |-> post, body |-> b]
Replies ==
    {ServiceRaises, NoText}
    \cup {Text("none", FALSE, b) : b \in Bodies}
    \cup {Text(pre, post, JsonObject({"match", "reason"}, "true")) :
              pre \in {"none", "json", "bare"}, post \in BOOLEAN}

\* lines 158-163: strip, drop a leading ```json and a trailing ```, strip
Clean(r) == [pre |-> IF r.pre = "json" THEN "none" ELSE r.pre, body |-> r.body]

\* line 165: json.loads raises on what is left of a bare fence and on a
\* malformed body
json_loads(c) == IF c.pre # "none" \/ c.body.json = "invalid"
                 THEN [json |-> "JSONDecodeError"] ELSE c.body

\* What the service may answer about posting i: anything for the varied
\* postings; for the others it raises or answers a plain "no match".
RepliesFor(i) ==
    IF i <= MaxVaried THEN Replies
    ELSE {ServiceRaises, Text("none", FALSE, JsonObject({"match", "reason"}, "false"))}

\* The detail pages that may fail to load.
MayFail(i) == i <= MaxVaried

\* Python truthiness of result.get('match') (line 167); a missing key gives None
Truthy(v) == v \in {"true", "string"}
DictGet(d, k) == IF k \in d.fields THEN d.match ELSE "null"

Exceptions == {"ServiceError", "AttributeError", "JSONDecodeError"}

\* lines 152-172: the body of the try block, giving the value returned or the
\* exception raised
TryAnalyze(r) ==
    IF r.kind = "raise" THEN "ServiceError"
    ELSE IF r.kind = "notext" THEN "AttributeError"     \* None.strip()
    ELSE LET result == json_loads(Clean(r))
         IN IF result.json = "JSONDecodeError" THEN "JSONDecodeError"
            ELSE IF result.json # "object" THEN "AttributeError"  \* list.get
            ELSE IF Truthy(DictGet(result, "match")) THEN "True" ELSE "False"

\* line 174: except Exception
Caught_JsonOnly(e) == e = "JSONDecodeError"
Caught(e) == e \in Exceptions

\* analyze_job: "True", "False", or "raise" when an exception leaves it
analyze_job(r, hasClient) ==
    IF ~hasClient THEN "False"
    ELSE LET out == TryAnalyze(r)
         IN IF out \in Exceptions
            THEN (IF Caught(out) THEN "False" ELSE "raise")
            ELSE out

\* lines 373-376: the calls of send_email the run makes for its match list
Notify_Always(m) == <<m>>
Notify(m) == IF m # <<>> THEN <<m>> ELSE <<>>

(* -------------------------- is_excluded_title ------------------------- *)
\* A title is a sequence of characters.
Uppers == <<"A", "B", "C", "D", "E", "F", "G", "H", "I", "J", "K", "L", "M", "N", "O", "P", "Q", "R", "S", "T", "U", "V", "W", "X", "Y", "Z">>
Lowers == <<"a", "b", "c", "d", "e", "f", "g", "h", "i", "j", "k", "l", "m", "n", "o", "p", "q", "r", "s", "t", "u", "v", "w", "x", "y", "z">>
Digits == {"0", "1", "2", "3", "4", "5", "6", "7", "8", "9"}

\* str.lower of one character (line 47)
LowerChar(c) == IF \E k \in 1..Len(Uppers) : Uppers[k] = c
                THEN Lowers[CHOOSE k \in 1..Len(Uppers) : Uppers[k] = c]
                ELSE c

\* line 47: title.lower()
lower(t) == [k \in 1..Len(t) |-> LowerChar(t[k])]

\* \w of the regular expressions
IsWordChar(c) == c \in Range(Uppers) \cup Range(Lowers) \cup Digits \cup {"_"}

\* \b before position k of t (k in 1..Len(t)+1): exactly one of the characters
\* on its two sides is a word character; outside t there is none
WordAt(t, k) == k >= 1 /\ k <= Len(t) /\ IsWordChar(t[k])
Boundary(t, k) == WordAt(t, k - 1) # WordAt(t, k)

\* A pattern: the literal text, and whether \b stands at its two ends.
Pattern(w, b) == [lit |-> w, wb |-> b]

\* lines 34-39
EXCLUDED_KEYWORDS == <<
    Pattern(<<"s", "e", "n", "i", "o", "r">>, TRUE),
    Pattern(<<"s", "r", ".">>, TRUE),
    Pattern(<<"l", "e", "a", "d">>, TRUE),
    Pattern(<<"p", "r", "i", "n", "c", "i", "p", "a", "l">>, TRUE),
    Pattern(<<"m", "a", "n", "a", "g", "e", "r">>, TRUE),
    Pattern(<<"d", "i", "r", "e", "c", "t", "o", "r">>, TRUE),
    Pattern(<<"h", "e", "a", "d", " ", "o", "f">>, TRUE),
    Pattern(<<"v", "p">>, TRUE),
    Pattern(<<"a", "r", "c", "h", "i", "t", "e", "c", "t">>, TRUE),
    Pattern(<<"p", "h", "d">>, TRUE),
    Pattern(<<"m", "d">>, TRUE),
    Pattern(<<"j", "d">>, TRUE),
    Pattern(<<"e", "x", "p", "e", "r", "t">>, TRUE),
    Pattern(<<"a", "d", "v", "a", "n", "c", "e", "d">>, TRUE),
    Pattern(<<"e", "x", "p", "e", "r", "i", "e", "n", "c", "e", "d">>, TRUE),
    Pattern(<<"i", "i", "i">>, TRUE),
    Pattern(<<"i", "v">>, TRUE) >>

\* lines 41-43
ALLOWED_EXCEPTIONS == <<
    Pattern(<<"p", "r", "o", "d", "u", "c", "t", " ", "m", "a", "n", "a", "g", "e", "r">>, FALSE),
    Pattern(<<"p", "r", "o", "j", "e", "c", "t", " ", "m", "a", "n", "a", "g", "e", "r">>, FALSE),
    Pattern(<<"c", "o", "m", "m", "u", "n", "i", "t", "y", " ", "m", "a", "n", "a", "g", "e", "r">>, FALSE) >>

\* the pattern matches t from position k on
MatchAt(p, t, k) ==
    /\ k + Len(p.lit) - 1 <= Len(t)
    /\ \A j \in 1..Len(p.lit) : t[k + j - 1] = p.lit[j]
    /\ p.wb => (Boundary(t, k) /\ Boundary(t, k + Len(p.lit)))

\* re.search(pattern, t) finds a match
re_search(p, t) == \E k \in 1..Len(t) : MatchAt(p, t, k)

\* the loops of lines 50-52 and 55-58: some pattern of the list, taken in
\* order, is found
RECURSIVE AnyFound(_, _)
AnyFound(pats, t) ==
    IF pats = <<>> THEN FALSE
    ELSE IF re_search(Head(pats), t) THEN TRUE
    ELSE AnyFound(Tail(pats), t)

\* lines 45-60
is_excluded_title_ExclusionsFirst(t) ==
    LET title_lower == lower(t)
    IN IF AnyFound(EXCLUDED_KEYWORDS, title_lower) THEN TRUE
       ELSE FALSE
is_excluded_title(t) ==
    LET title_lower == lower(t)
    IN IF AnyFound(ALLOWED_EXCEPTIONS, title_lower) THEN FALSE
       ELSE IF AnyFound(EXCLUDED_KEYWORDS, title_lower) THEN TRUE
       ELSE FALSE

\* The pieces the titles under study are made of.
TitleParts == {
    <<"S", "e", "n", "i", "o", "r">>,
    <<"S", "R", ".">>,
    <<" ">>,
    <<"P", "r", "o", "d", "u", "c", "t", " ", "M", "a", "n", "a", "g", "e", "r">>,
    <<"m", "a", "n", "a", "g", "e", "r">>,
    <<"s">>,
    <<"L", "e", "a", "d">>,
    <<"i", "i", "i">> }

RECURSIVE Concat(_)
Concat(ss) == IF ss = <<>> THEN <<>> ELSE Head(ss) \o Concat(Tail(ss))

Titles == UNION {{Concat(ps) : ps \in [1..n -> TitleParts]} : n \in 0..MaxTitleParts}

(* ------------------------- optimize_description ------------------------ *)
\* A text is a sequence of characters.
\* lines 74-77
headers == <<
    <<"R", "e", "q", "u", "i", "r", "e", "m", "e", "n", "t", "s">>,
    <<"Q", "u", "a", "l", "i", "f", "i", "c", "a", "t", "i", "o", "n", "s">>,
    <<"W", "h", "a", "t", " ", "y", "o", "u", " ", "b", "r", "i", "n", "g">>,
    <<"W", "h", "o", " ", "y", "o", "u", " ", "a", "r", "e">>,
    <<"I", "d", "e", "a", "l", " ", "C", "a", "n", "d", "i", "d", "a", "t", "e">>,
    <<"S", "k", "i", "l", "l", "s">>,
    <<"P", "r", "e", "r", "e", "q", "u", "i", "s", "i", "t", "e", "s">> >>

\* line 100: the truncation marker
TRUNCATED == <<"\n", ".", ".", ".", "[", "T", "R", "U", "N", "C", "A", "T", "E", "D", "]", ".", ".", ".">>

Min(S) == CHOOSE m \in S : \A n \in S : m <= n
Max(a, b) == IF a >= b THEN a ELSE b

\* str.find (line 83): the index, counted from 0, of the first occurrence of h
\* in t, or -1
find(t, h) ==
    LET hits == {k \in 1..(Len(t) - Len(h) + 1) :
                    \A j \in 1..Len(h) : t[k + j - 1] = h[j]}
    IN IF hits = {} THEN -1 ELSE Min(hits) - 1

\* lines 80-86: the loop over the headers keeps the smallest index found
RECURSIVE BestStart(_, _, _)
BestStart(t, hs, best_start) ==
    IF hs = <<>> THEN best_start
    ELSE LET found == find(t, Head(hs))
         IN BestStart(t, Tail(hs),
                      IF found # -1 /\ (best_start = -1 \/ found < best_start)
                      THEN found ELSE best_start)

\* line 92
start_safe_AtHeader(best_start) == best_start
start_safe(best_start) == Max(0, best_start - ContextChars)

\* t[a:] of Python, a >= 0
From(t, a) == SubSeq(t, a + 1, Len(t))

\* t[:n] of Python, n >= 0
UpToChar(t, n) == SubSeq(t, 1, IF n < Len(t) THEN n ELSE Len(t))

\* lines 63-102
optimize_description(t) ==
    IF t = <<>> THEN <<>>
    ELSE LET best_start == BestStart(t, headers, -1)
             window == IF best_start # -1
                       THEN From(t, start_safe(best_start))
                       ELSE t
         IN IF Len(window) > HardLimit
            THEN UpToChar(window, HardLimit) \o TRUNCATED
            ELSE window

\* The pieces the texts under study are made of: runs of filler of the lengths
\* at which the two limits are met, and two of the headers.
Filler(n) == [k \in 1..n |-> "x"]
TextParts == {Filler(1), Filler(ContextChars), Filler(HardLimit - ContextChars),
              headers[1], headers[6]}

Texts == UNION {{Concat(ps) : ps \in [1..n -> TextParts]} : n \in 0..MaxTextParts}

(* ------------------------------- Init --------------------------------- *)
InitialFiles == {MissingFile, BadFile, OkFile(<<>>), OkFile(<<1>>), OkFile(<<2, 3>>)}

FreshObs(d) ==
    /\ extracted' = <<>>
    /\ listed' = {}
    /\ repeated' = {}
    /\ nextLog' = <<>>
    /\ authSeen' = FALSE
    /\ authInitial' = FALSE
    /\ fetchLog' = <<>>
    /\ classLog' = <<>>
    /\ fetchFailed' = {}
    /\ lastReply' = NoReply
    /\ lastVerdict' = "none"
    /\ emailCalls' = <<>>
    /\ saveCalls' = 0
    /\ lastSave' = "none"
    /\ flushedLen' = 0
    /\ saveFailed' = FALSE
    /\ escaped' = FALSE
    /\ durable' = d

\* main() about to run on file f
InitMain(f) ==
    /\ file = f
    /\ status = "running"
    /\ pc = "main"
    /\ client = FALSE
    /\ url = "explore"
    /\ history = <<>>
    /\ jobs = <<>>
    /\ current_page = 1
    /\ new_jobs = <<>>
    /\ idx = 1
    /\ matches = <<>>
    /\ processed_ids = <<>>
    /\ extracted = <<>>
    /\ listed = {}
    /\ repeated = {}
    /\ nextLog = <<>>
    /\ authSeen = FALSE
    /\ authInitial = FALSE
    /\ fetchLog = <<>>
    /\ classLog = <<>>
    /\ fetchFailed = {}
    /\ lastReply = NoReply
    /\ lastVerdict = "none"
    /\ emailCalls = <<>>
    /\ saveCalls = 0
    /\ lastSave = "none"
    /\ flushedLen = 0
    /\ saveFailed = FALSE
    /\ escaped = FALSE
    /\ durable = Range(load_history(file))

\* no pure function is under study
PureIdle ==
    /\ fnpc = "idle"
    /\ title = <<>>
    /\ excluded = FALSE
    /\ text = <<>>
    /\ optimized = <<>>
    /\ reoptimized = <<>>

Init ==
    /\ \E f \in InitialFiles : InitMain(f)
    /\ PureIdle

(* ------------------------------ actions ------------------------------- *)
Running == status = "running"

\* lines 212-227: the client is set up, the history is loaded, jobs is empty
StartMain ==
    /\ Running /\ pc = "main"
    /\ \E c \in BOOLEAN : client' = c
    /\ history' = load_history(file)
    /\ jobs' = <<>>
    /\ pc' = "launch"
    /\ UNCHANGED <<file, status, url, current_page, new_jobs, idx, matches,
                   processed_ids, obs>>
    /\ UNCHANGED pureVars

\* lines 229-240: the browser session opens, or raises to the handler of line 378
Launch ==
    /\ Running /\ pc = "launch"
    /\ \E ok \in BOOLEAN :
          IF ok THEN pc' = "goto" /\ escaped' = escaped
          ELSE pc' = "handler" /\ escaped' = TRUE
    /\ UNCHANGED <<file, status, client, url, history, jobs, current_page,
                   new_jobs, idx, matches, processed_ids, extracted, listed, repeated, nextLog,
                   authSeen, authInitial, fetchLog, classLog, fetchFailed, lastReply,
                   lastVerdict, emailCalls, saveCalls, lastSave, flushedLen,
                   saveFailed, durable>>
    /\ UNCHANGED pureVars

\* lines 243-265: the initial navigation (its own errors are passed over), the
\* redirect check, which closes the browser and returns, and the start of
\* pagination
Navigate ==
    /\ Running /\ pc = "goto"
    /\ \E u \in Urls :
          /\ url' = u
          /\ IF IsAuthUrl(u)
             THEN /\ status' = "returned"
                  /\ pc' = "end"
             ELSE /\ status' = status
                  /\ pc' = "while"
          /\ authSeen' = (u # "explore")
          /\ authInitial' = (u # "explore")
    /\ current_page' = 1
    /\ UNCHANGED <<file, client, history, jobs, new_jobs, idx, matches,
                   processed_ids, extracted, listed, repeated, nextLog, fetchLog, classLog, fetchFailed,
                   lastReply, lastVerdict, emailCalls, saveCalls, lastSave,
                   flushedLen, saveFailed, escaped, durable>>
    /\ UNCHANGED pureVars

\* lines 267-299: one pass of the loop body up to the log line; page.content()
\* may raise, which nothing catches before line 378
ExtractPage ==
    /\ Running /\ pc = "while" /\ LoopCond(current_page)
    /\ \/ \E links \in PagesAt(url) :
             /\ jobs' = jobs \o FoundOn(links)
             /\ extracted' = Append(extracted, current_page)
             /\ listed' = listed \cup Range(FoundOn(links))
             /\ pc' = "next"
             /\ escaped' = escaped
       \/ /\ pc' = "handler"
          /\ escaped' = TRUE
          /\ UNCHANGED <<jobs, extracted, listed>>
    /\ UNCHANGED <<file, status, client, url, history, current_page, new_jobs,
                   idx, matches, processed_ids, repeated, nextLog, authSeen, authInitial,
                   fetchLog, classLog, fetchFailed, lastReply, lastVerdict,
                   emailCalls, saveCalls, lastSave, flushedLen, saveFailed, durable>>
    /\ UNCHANGED pureVars

\* line 267, the condition false: the loop is left
LoopExit ==
    /\ Running /\ pc = "while" /\ ~LoopCond(current_page)
    /\ pc' = "dedup"
    /\ UNCHANGED <<file, status, client, url, history, jobs, current_page,
                   new_jobs, idx, matches, processed_ids, obs>>
    /\ UNCHANGED pureVars

\* lines 301-311: the next-page control.  "usable": visible and enabled, the
\* click and the wait go through and the session lands on some url; "unusable":
\* absent, not visible or disabled; "raises": the locator, the click or the wait
\* raises.  The last two break.
NextOutcomes == {"usable", "unusable", "raises"}

NextButton ==
    /\ Running /\ pc = "next"
    /\ \E o \in NextOutcomes :
          /\ nextLog' = Append(nextLog, o)
          /\ IF o = "usable"
             THEN /\ \E u \in UrlsAfterClick : /\ url' = u
                                     /\ authSeen' = (authSeen \/ u # "explore")
                  /\ current_page' = current_page + 1
                  /\ pc' = "while"
             ELSE /\ UNCHANGED <<url, authSeen>>
                  /\ current_page' = current_page
                  /\ pc' = "dedup"
    /\ UNCHANGED <<file, status, client, history, jobs, new_jobs, idx, matches,
                   processed_ids, extracted, listed, repeated, authInitial, fetchLog, classLog,
                   fetchFailed, lastReply, lastVerdict, emailCalls, saveCalls,
                   lastSave, flushedLen, saveFailed, escaped, durable>>
    /\ UNCHANGED pureVars

\* lines 313-320.  jobs, current_page and the pagination record are read by
\* nothing after line 316; they are cleared here so that runs which differ
\* only in them are one state.
Dedup ==
    /\ Running /\ pc = "dedup"
    /\ new_jobs' = NewJobs(jobs, history)
    /\ repeated' = {i \in Range(NewJobs(jobs, history)) : Occurrences(jobs, i) > 1}
    /\ matches' = <<>>
    /\ processed_ids' = <<>>
    /\ idx' = 1
    /\ pc' = "for"
    /\ jobs' = <<>>
    /\ current_page' = 1
    /\ extracted' = <<>>
    /\ nextLog' = <<>>
    /\ url' = "explore"
    /\ UNCHANGED <<file, status, client, history, listed, authSeen, authInitial,
                   fetchLog, classLog, fetchFailed, lastReply, lastVerdict,
                   emailCalls, saveCalls, lastSave, flushedLen, saveFailed, escaped,
                   durable>>
    /\ UNCHANGED pureVars

\* line 366: the handler of the loop body logs and the loop goes on
NextJob == /\ idx' = idx + 1
           /\ pc' = "for"

\* lines 322-353: the detail page of the next job is fetched and its description
\* set; page.goto or page.content() may raise, which line 366 catches (the wait
\* of line 330 and the JSON-LD extraction of lines 335-344 catch their own)
Fetch ==
    /\ Running /\ pc = "for" /\ idx <= Len(new_jobs)
    /\ fetchLog' = Append(fetchLog, new_jobs[idx])
    /\ \/ /\ pc' = "analyze"
          /\ UNCHANGED <<idx, fetchFailed>>
       \/ /\ MayFail(new_jobs[idx])
          /\ fetchFailed' = fetchFailed \cup {new_jobs[idx]}
          /\ NextJob
    /\ UNCHANGED <<file, status, client, url, history, jobs, current_page,
                   new_jobs, matches, processed_ids, extracted, listed, repeated, nextLog, authSeen,
                   authInitial, classLog, lastReply, lastVerdict, emailCalls,
                   saveCalls, lastSave, flushedLen, saveFailed, escaped, durable>>
    /\ UNCHANGED pureVars

\* lines 355-358
Analyze ==
    /\ Running /\ pc = "analyze"
    /\ IF client
       THEN \E r \in RepliesFor(new_jobs[idx]) :
               LET v == analyze_job(r, client)
               IN /\ lastReply' = r
                  /\ lastVerdict' = v
                  /\ classLog' = Append(classLog, new_jobs[idx])
                  /\ matches' = IF v = "True" THEN Append(matches, new_jobs[idx])
                                ELSE matches
                  /\ IF v = "raise"
                     THEN NextJob
                     ELSE pc' = "record" /\ idx' = idx
       ELSE /\ pc' = "record"
            /\ UNCHANGED <<lastReply, lastVerdict, classLog, matches, idx>>
    /\ UNCHANGED <<file, status, client, url, history, jobs, current_page,
                   new_jobs, processed_ids, extracted, listed, repeated, nextLog, authSeen,
                   authInitial, fetchLog, fetchFailed, emailCalls, saveCalls, lastSave,
                   flushedLen, saveFailed, escaped, durable>>
    /\ UNCHANGED pureVars

\* line 360
RecordId_Skip(p, i) == p
RecordId(p, i) == Append(p, i)

\* lines 360-363
Record ==
    /\ Running /\ pc = "record"
    /\ processed_ids' = RecordId(processed_ids, new_jobs[idx])
    /\ lastReply' = NoReply
    /\ lastVerdict' = "none"
    /\ IF CheckpointDue(Len(processed_ids'))
       THEN pc' = "ckpt_open" /\ idx' = idx
       ELSE NextJob
    /\ UNCHANGED <<file, status, client, url, history, jobs, current_page,
                   new_jobs, matches, extracted, listed, repeated, nextLog, authSeen, authInitial,
                   fetchLog, classLog, fetchFailed, emailCalls, saveCalls, lastSave,
                   flushedLen, saveFailed, escaped, durable>>
    /\ UNCHANGED pureVars

\* save_history, lines 124-125: the directory is made and the file opened for
\* writing, which empties it; either may raise and then the file is as it was.
\* `raised` is where the exception goes: line 366 from the checkpoint, line 378
\* from the final save.
SaveOpen(at, opened, raised) ==
    /\ Running /\ pc = at
    /\ saveCalls' = saveCalls + 1
    /\ \/ /\ file' = BadFile
          /\ lastSave' = "open"
          /\ pc' = opened
          /\ UNCHANGED <<idx, saveFailed, escaped>>
       \/ /\ file' = file
          /\ lastSave' = "failed"
          /\ saveFailed' = TRUE
          /\ raised
    /\ UNCHANGED <<status, client, url, history, jobs, current_page, new_jobs,
                   matches, processed_ids, extracted, listed, repeated, nextLog, authSeen, authInitial,
                   fetchLog, classLog, fetchFailed, lastReply, lastVerdict,
                   emailCalls, flushedLen, durable>>
    /\ UNCHANGED pureVars

\* save_history, line 126: json.dump writes the list and the file is closed, or
\* the write raises and leaves the file cut short
SaveWrite(at, done, raised) ==
    /\ Running /\ pc = at
    /\ \/ /\ file' = OkFile(SaveArg(history, processed_ids))
          /\ lastSave' = "ok"
          /\ flushedLen' = Len(processed_ids)
          /\ durable' = durable \cup Range(SaveArg(history, processed_ids))
          /\ done
          /\ UNCHANGED <<saveFailed>>
       \/ /\ file' = BadFile
          /\ lastSave' = "failed"
          /\ saveFailed' = TRUE
          /\ raised
          /\ UNCHANGED <<flushedLen, durable>>
    /\ UNCHANGED <<status, client, url, history, jobs, current_page, new_jobs,
                   matches, processed_ids, extracted, listed, repeated, nextLog, authSeen, authInitial,
                   fetchLog, classLog, fetchFailed, lastReply, lastVerdict,
                   emailCalls, saveCalls>>
    /\ UNCHANGED pureVars

ToHandler == /\ pc' = "handler"
             /\ escaped' = TRUE
             /\ idx' = idx

\* line 364
CheckpointOpen == SaveOpen("ckpt_open", "ckpt_write", NextJob /\ escaped' = escaped)
CheckpointWrite ==
    SaveWrite("ckpt_write", NextJob /\ escaped' = escaped, NextJob /\ escaped' = escaped)

\* line 370, reached when the loop of line 322 is over
FinalOpen ==
    /\ idx > Len(new_jobs)
    /\ SaveOpen("for", "final_write", ToHandler)
FinalWrite ==
    SaveWrite("final_write", pc' = "close" /\ UNCHANGED <<idx, escaped>>, ToHandler)

\* lines 371-376, to the last line of main
CloseAndNotify ==
    /\ Running /\ pc = "close"
    /\ \/ /\ emailCalls' = emailCalls \o Notify(matches)
          /\ pc' = "end"
          /\ status' = "complete"
          /\ escaped' = escaped
       \/ /\ pc' = "handler"          \* browser.close() raises
          /\ escaped' = TRUE
          /\ UNCHANGED <<emailCalls, status>>
    /\ UNCHANGED <<file, client, url, history, jobs, current_page, new_jobs,
                   idx, matches, processed_ids, extracted, listed, repeated, nextLog, authSeen,
                   authInitial, fetchLog, classLog, fetchFailed, lastReply,
                   lastVerdict, saveCalls, lastSave, flushedLen, saveFailed, durable>>
    /\ UNCHANGED pureVars

\* lines 378-381: the top-level handler logs the exception; main ends
Handler ==
    /\ Running /\ pc = "handler"
    /\ pc' = "end"
    /\ status' = "complete"
    /\ UNCHANGED <<file, client, url, history, jobs, current_page, new_jobs,
                   idx, matches, processed_ids, obs>>
    /\ UNCHANGED pureVars

\* The state in which an invocation of main() starts, on file f.
Restart(f, d) ==
    /\ file' = f
    /\ status' = "running"
    /\ pc' = "main"
    /\ client' = FALSE
    /\ url' = "explore"
    /\ history' = <<>>
    /\ jobs' = <<>>
    /\ current_page' = 1
    /\ new_jobs' = <<>>
    /\ idx' = 1
    /\ matches' = <<>>
    /\ processed_ids' = <<>>
    /\ FreshObs(d)
    /\ UNCHANGED pureVars

\* The process is killed (a signal, a power cut): nothing of main runs after
\* it, and main is started again on the file as the kill left it.
KillAndRestart ==
    /\ Running /\ pc # "main"
    /\ Restart(file, durable)

\* main has ended and is started again.
NextRun ==
    /\ ~Running
    /\ Restart(file, durable)

Next ==
    \/ StartMain \/ Launch \/ Navigate \/ ExtractPage \/ LoopExit \/ NextButton
    \/ Dedup \/ Fetch \/ Analyze \/ Record
    \/ CheckpointOpen \/ CheckpointWrite \/ FinalOpen \/ FinalWrite
    \/ CloseAndNotify \/ Handler \/ KillAndRestart \/ NextRun

Spec == Init /\ [][Next]_vars

\* main() from its start to the end of discovery (line 316) in one invocation.
\* The program is one thread that runs on: each step it can take, it takes.
NextTraversal ==
    \/ StartMain \/ Launch \/ Navigate \/ ExtractPage \/ LoopExit \/ NextButton
    \/ Dedup

SpecTraversal ==
    /\ Init /\ [][NextTraversal]_vars
    /\ WF_vars(ExtractPage) /\ WF_vars(LoopExit) /\ WF_vars(NextButton)

(* ------------------------------- claims ------------------------------- *)
\* C1: an id that is in the ledger file when a run starts, the file loading,
\* is in the history of that run, and the run neither takes it as a new job
\* nor fetches its detail page nor classifies it nor puts it in the match list,
\* however often the listing shows it.
C1_LedgerIdsNotReprocessed ==
    /\ (pc = "launch" /\ file.kind = "ok") => history = file.ids
    /\ \A i \in Range(history) :
          /\ i \notin Range(new_jobs)
          /\ i \notin Range(fetchLog)
          /\ i \notin Range(classLog)
          /\ i \notin Range(matches)
          /\ i \notin Range(processed_ids)

\* a run whose listing showed an id of the loaded ledger, and which fetched
\* other postings and reached its final save
C1_Witness ==
    /\ pc = "close"
    /\ \E i \in Range(history) : i \in listed
    /\ fetchLog # <<>>

C3_CheckpointState ==
    /\ (pc \in {"for", "analyze", "record"} /\ Len(processed_ids) > 0
            /\ Len(processed_ids) % 5 = 0)
          => /\ saveCalls * 5 >= Len(processed_ids)
             /\ lastSave \in {"ok", "failed"}
             /\ lastSave = "ok" => flushedLen = Len(processed_ids)
    /\ (lastSave = "ok" /\ pc \in {"for", "analyze", "record", "close", "handler", "end"})
          => file = OkFile(history \o SubSeq(processed_ids, 1, flushedLen))
    /\ (lastSave = "ok" /\ pc \in {"for", "analyze", "record"})
          => Len(processed_ids) - flushedLen < 5

C3_KillKeepsFlushed ==
    (Running /\ pc \in {"for", "analyze", "record"} /\ lastSave = "ok" /\ pc' = "main")
       => file' = OkFile(history \o SubSeq(processed_ids, 1, flushedLen))

\* C3: the checkpoint state above holds throughout, and a kill during the
\* processing of a posting leaves the file of the last completed flush.
C3_Checkpoint == []C3_CheckpointState /\ [][C3_KillKeepsFlushed]_vars

\* the sixth new posting is being processed after the checkpoint of the first
\* five completed
C3_Witness ==
    /\ Running /\ pc = "analyze" /\ idx = 6
    /\ Len(processed_ids) = 5 /\ lastSave = "ok" /\ flushedLen = 5
    /\ file = OkFile(processed_ids)

\* C4: every id that a valid pre-run file or a completed flush persisted is
\* in the history the next run loads.
C4_PersistedIdsSurvive ==
    pc = "launch" => durable \subseteq Range(history)

\* C5: the step of the top-level handler calls save_history.
C5_HandlerFlushes ==
    [][(pc = "handler" /\ pc' = "end") => saveCalls' > saveCalls]_vars

\* C6: once a save_history call has raised, no posting is processed and the
\* run does not come to its ordinary end.
C6_SaveFailureHalts ==
    saveFailed => (pc \notin {"analyze", "record"} /\ status # "complete")

C8_AuthNeverProcesses ==
    authSeen => (fetchLog = <<>> /\ classLog = <<>>)

\* C8 as amended: when the initial navigation lands on a url with /login or
\* auth-wall the run returns at once: no page is extracted, no posting found,
\* fetched or classified, nothing saved, nobody notified; and the run returns
\* in this way in no other case.
C8_InitialAuthAborts ==
    /\ authInitial
          => /\ status = "returned" /\ pc = "end"
             /\ extracted = <<>> /\ jobs = <<>> /\ listed = {}
             /\ fetchLog = <<>> /\ classLog = <<>> /\ matches = <<>>
             /\ saveCalls = 0 /\ emailCalls = <<>>
    /\ status = "returned" => authInitial

C8_Witness ==
    status = "returned" /\ url = "auth-wall" /\ authInitial

\* C9: the pages extracted are 1, 2, ... in order and at most max_pages; the
\* loop is left at the first page whose next control is not usable (absent, not
\* visible, disabled, or failing), with that many pages extracted, or after
\* page max_pages; and the loop is left.
C9_Pages ==
    /\ Len(extracted) <= max_pages
    /\ \A k \in 1..Len(extracted) : extracted[k] = k
    /\ \A k \in 1..(Len(nextLog) - 1) : nextLog[k] = "usable"
    /\ pc = "while" => /\ Len(extracted) = current_page - 1
                       /\ Len(nextLog) = current_page - 1
                       /\ \A k \in 1..Len(nextLog) : nextLog[k] = "usable"
    /\ pc = "next" => /\ Len(extracted) = current_page
                      /\ Len(nextLog) = current_page - 1
    /\ pc = "dedup" => /\ Len(nextLog) = Len(extracted)
                       /\ Len(extracted) >= 1
                       /\ IF nextLog[Len(nextLog)] = "usable"
                          THEN Len(extracted) = max_pages /\ current_page = max_pages + 1
                          ELSE Len(extracted) = current_page

\* C9: the page count and order above hold throughout, and the pagination
\* loop, once entered, is left.
C9_Traversal ==
    []C9_Pages /\ ((pc \in {"while", "next"}) ~> (pc \notin {"while", "next"}))

\* the next control is usable on pages 1 and 2 and not on page 3
C9_Witness ==
    /\ pc = "dedup"
    /\ extracted = <<1, 2, 3>>
    /\ nextLog = <<"usable", "usable", "unusable">>

\* C10: a reply that makes the service call raise, that is not a JSON document
\* once its code fence is taken off, or whose object has no match field, makes
\* analyze_job return False and raise nothing, and its posting is not in the
\* match list; without a client nothing matches.
FailingReply(r) ==
    \/ r.kind = "raise"
    \/ /\ r.kind = "text"
       /\ \/ r.pre = "bare"
          \/ r.body.json = "invalid"
          \/ (r.body.json = "object" /\ "match" \notin r.body.fields)

C10_FailClosed ==
    /\ lastVerdict # "raise"
    /\ (lastReply.kind # "none" /\ FailingReply(lastReply))
          => /\ lastVerdict = "False"
             /\ classLog # <<>>
             /\ classLog[Len(classLog)] \notin Range(matches)
    /\ ~client => matches = <<>>
    /\ Range(matches) \subseteq Range(classLog)

\* the reply is an object without a match field
C10_Witness ==
    /\ pc = "record"
    /\ lastReply.kind = "text"
    /\ lastReply.body.json = "object"
    /\ "match" \notin lastReply.body.fields
    /\ lastVerdict = "False"

(* ---------------- is_excluded_title applied to one title --------------- *)
InitFilter ==
    /\ InitMain(MissingFile)
    /\ fnpc = "title"
    /\ title \in Titles
    /\ excluded = FALSE
    /\ text = <<>>
    /\ optimized = <<>>
    /\ reoptimized = <<>>

\* line 293: the filter is applied to the title
ApplyFilter ==
    /\ fnpc = "title"
    /\ excluded' = is_excluded_title(title)
    /\ fnpc' = "filtered"
    /\ UNCHANGED <<file, status, pc, client, url, history, jobs, current_page,
                   new_jobs, idx, matches, processed_ids, obs, title, text,
                   optimized, reoptimized>>

NextFilter == ApplyFilter

SpecFilter == InitFilter /\ [][NextFilter]_vars

\* Two characters are the same letter in either case.
SameIgnoringCase(a, b) ==
    \/ a = b
    \/ \E k \in 1..Len(Uppers) : {a, b} = {Uppers[k], Lowers[k]}

\* The pattern occurs in the title, letter case ignored.
Occurs(p, t) ==
    \E k \in 1..Len(t) :
       /\ k + Len(p.lit) - 1 <= Len(t)
       /\ \A j \in 1..Len(p.lit) : SameIgnoringCase(t[k + j - 1], p.lit[j])
       /\ p.wb => (Boundary(t, k) /\ Boundary(t, k + Len(p.lit)))

\* the title with the case of every letter changed
SwapCase(t) ==
    [k \in 1..Len(t) |->
        IF \E j \in 1..Len(Uppers) : Uppers[j] = t[k]
        THEN Lowers[CHOOSE j \in 1..Len(Uppers) : Uppers[j] = t[k]]
        ELSE IF \E j \in 1..Len(Lowers) : Lowers[j] = t[k]
        THEN Uppers[CHOOSE j \in 1..Len(Lowers) : Lowers[j] = t[k]]
        ELSE t[k]]

\* C11: a title in which an allow-exception occurs is not excluded, whatever
\* exclusion patterns occur in it; any other title is excluded exactly when an
\* exclusion pattern occurs in it; and the result does not change with the case
\* of the title's letters.
C11_ExceptionsFirst ==
    fnpc = "filtered" =>
       /\ excluded =
            (IF \E k \in 1..Len(ALLOWED_EXCEPTIONS) : Occurs(ALLOWED_EXCEPTIONS[k], title)
             THEN FALSE
             ELSE \E k \in 1..Len(EXCLUDED_KEYWORDS) : Occurs(EXCLUDED_KEYWORDS[k], title))
       /\ excluded = is_excluded_title(SwapCase(title))

\* a title with capitals in which both an allow-exception and an exclusion
\* pattern occur
C11_Witness ==
    /\ fnpc = "filtered"
    /\ ~excluded
    /\ title # lower(title)
    /\ \E k \in 1..Len(ALLOWED_EXCEPTIONS) : Occurs(ALLOWED_EXCEPTIONS[k], title)
    /\ Occurs(EXCLUDED_KEYWORDS[1], title)

(* ------------- optimize_description applied to one text, twice ---------- *)
InitOptimize ==
    /\ InitMain(MissingFile)
    /\ fnpc = "text"
    /\ text \in Texts
    /\ title = <<>>
    /\ excluded = FALSE
    /\ optimized = <<>>
    /\ reoptimized = <<>>

\* line 353: the description is optimized
Optimize ==
    /\ fnpc = "text"
    /\ optimized' = optimize_description(text)
    /\ fnpc' = "once"
    /\ UNCHANGED <<file, status, pc, client, url, history, jobs, current_page,
                   new_jobs, idx, matches, processed_ids, obs, title, excluded,
                   text, reoptimized>>

\* the text returned is given to the function again
Reoptimize ==
    /\ fnpc = "once"
    /\ reoptimized' = optimize_description(optimized)
    /\ fnpc' = "twice"
    /\ UNCHANGED <<file, status, pc, client, url, history, jobs, current_page,
                   new_jobs, idx, matches, processed_ids, obs, title, excluded,
                   text, optimized>>

NextOptimize == Optimize \/ Reoptimize

SpecOptimize == InitOptimize /\ [][NextOptimize]_vars

\* some header stands in t from position k (counted from 1) on
HeaderAt(t, k) ==
    \E n \in 1..Len(headers) :
       /\ k + Len(headers[n]) - 1 <= Len(t)
       /\ \A j \in 1..Len(headers[n]) : t[k + j - 1] = headers[n][j]

\* the positions of t at which a header stands
HeaderPositions(t) == {k \in 1..Len(t) : HeaderAt(t, k)}

\* C12, as stated: every text of at most 3000 characters is returned unchanged.
C12_ShortTextUnchanged ==
    (fnpc # "text" /\ Len(text) <= HardLimit) => optimized = text

\* C12, amended: a text that optimize_description has returned is returned
\* unchanged when given to it again, whatever its length; a text of at most
\* 3000 characters is returned unchanged exactly when no header stands in it
\* or the first header in it begins within 500 characters of its start.
C12_Idempotent ==
    /\ fnpc = "twice" => reoptimized = optimized
    /\ (fnpc # "text" /\ Len(text) <= HardLimit) =>
          (optimized = text <=>
              (HeaderPositions(text) = {}
               \/ \E k \in HeaderPositions(text) : k - 1 <= ContextChars))

\* a text cut at its first header and truncated, given to the function again
C12_Witness ==
    /\ fnpc = "twice"
    /\ HeaderPositions(text) # {}
    /\ Len(optimized) < Len(text)
    /\ Len(optimized) > HardLimit
    /\ reoptimized = optimized

\* C13: the text returned, the truncation marker included, is at most 3000
\* characters long.
C13_AtMostLimit ==
    fnpc # "text" => Len(optimized) <= HardLimit

(* ------------------------- one processing per id ----------------------- *)
NoDuplicate(s) == \A a, b \in 1..Len(s) : s[a] = s[b] => a = b

\* C14: within one run no id is detail-fetched twice, classified twice or
\* appended to the processed ids twice, however many links and pages gave it;
\* and when the loaded ledger has no duplicate id, a ledger that a flush of the
\* run has written has none.
C14_OncePerRun ==
    /\ NoDuplicate(new_jobs)
    /\ NoDuplicate(fetchLog)
    /\ NoDuplicate(classLog)
    /\ NoDuplicate(processed_ids)
    /\ (NoDuplicate(history) /\ lastSave = "ok") =>
          (file.kind = "ok" /\ NoDuplicate(file.ids))

\* an id that several links gave to jobs has been fetched, classified and
\* recorded, and a checkpoint has written it after the ids of the ledger
C14_Witness ==
    /\ \E i \in repeated : /\ i \in Range(fetchLog)
                           /\ i \in Range(classLog)
                           /\ i \in Range(processed_ids)
                           /\ i \in Range(file.ids)
    /\ history # <<>>
    /\ lastSave = "ok"
    /\ file = OkFile(history \o processed_ids)

====
